---------------------------- MODULE Spec2Model ----------------------------
(***************************************************************************)
(* A model of the zone-picker selection engine.                            *)
(*                                                                         *)
(* The ZoneSelector modelled here is the provider based snapshot           *)
(* (src/unnamed/part_001): the orchestrator that owns the zone list, the   *)
(* category filter and the pointer state machine, together with the paper  *)
(* path based selection strategies (src/unnamed/part_007, second           *)
(* snapshot).  Two older snapshots of the same class live in               *)
(* src/src/ZoneSelector.ts; they are superseded by part_001.               *)
(*                                                                         *)
(* What the external library (paper.js) answers is an input of the model:  *)
(* the zone a hit test finds and the set of zone shapes that pass the      *)
(* strategy's geometric test are drawn with \E from the values the library *)
(* can return.  The caller supplies both callbacks; their invocations of   *)
(* the last operation are recorded in history variables.                   *)
(*                                                                         *)
(* The containment and intersection helpers (src/unnamed/part_000) and the *)
(* strategies' completeSelection are pure functions; GeomSpec applies each *)
(* of them once to inputs drawn from bounded sets.  So it does with the    *)
(* coordinate transforms (computed in rounded binary arithmetic), the      *)
(* strategy factory, the constructor's derivation of the categories and    *)
(* the rendering providers' updateSelectionShape (src/unnamed/part_003,    *)
(* src/unnamed/part_004).                                                  *)
(***************************************************************************)
EXTENDS Integers, Sequences, FiniteSets, TLC

(***************************************************************************)
(* Bound of the model                                                      *)
(***************************************************************************)
MaxPoints == 3     \* longest point sequence a selection shape may grow to
MaxVertices == 2   \* most segments of a zone shape put to the containment test
MantissaBits == 8  \* significant bits a number keeps
MaxZones == 3      \* longest zone list a selector is constructed from
MaxRegistrations == 2  \* most handlers registered for one event kind
MaxPathLength == 60    \* longest path whose sample offsets are computed

(***************************************************************************)
(* The configuration: the zones of the test fixture (zone1 and zone2 in    *)
(* category h3-3, zone3 in h3-4), in the order of the zones array.         *)
(***************************************************************************)
ZoneList == <<"zone1", "zone2", "zone3">>
Zones == {ZoneList[i] : i \in 1..Len(ZoneList)}
CategoryOf(z) == IF z = "zone3" THEN "h3-4" ELSE "h3-3"

NoZone == "null"                        \* null zone id
UnknownZone == "nonexistent-zone"       \* an id that names no zone
UnknownCategory == "invalid-category"   \* a category no zone has

\* surface points a pointer event can carry
Points == {"p", "q"}
NoPoint == "null"                       \* null point

RECURSIVE UniqueFrom(_, _)
UniqueFrom(i, acc) ==
  IF i > Len(ZoneList) THEN acc
  ELSE IF \E j \in 1..Len(acc) : acc[j] = CategoryOf(ZoneList[i])
       THEN UniqueFrom(i + 1, acc)
       ELSE UniqueFrom(i + 1, Append(acc, CategoryOf(ZoneList[i])))

\* this.categories = [...new Set(this.zones.map(zone => zone.category))]
categories == UniqueFrom(1, <<>>)
CategorySet == {categories[i] : i \in 1..Len(categories)}

DragModes == {"lasso", "path"}
UnknownMode == "rectangle"       \* a mode createSelectionStrategy rejects
Keys == {"Shift", "a"}

NoShape == [points |-> <<>>, closed |-> FALSE, inProject |-> FALSE]

VARIABLES
  selected,           \* zone.selected of every zone
  currentCategory,    \* this.currentCategory
  zoneShapes,         \* keys of this.zoneShapes (zones with a drawn shape)
  dragMode,           \* this.dragMode
  selectionStrategy,  \* mode of the strategy object this.selectionStrategy
  isDragging,         \* this.isDragging
  dragStart,          \* this.dragStart (NoPoint = null)
  selectionShape,     \* this.selectionShape (NoShape = null)
  surfacePaths,       \* number of selection paths that are items of the paper project
  clickedZoneId,      \* this.clickedZoneId (NoZone = null)
  isShiftPressed,     \* this.isShiftPressed
  subscribed,         \* the provider's handler arrays hold this selector's handlers
  listening,          \* document holds this selector's keydown/keyup listeners
  \* history of the last operation
  lastOp,             \* [op, arg, after] the operation that produced this state;
                      \* after: for a pointer-up, the operation it followed
  branch,             \* branch the last pointer-up took: drag, click, none
  calls,              \* onSelectionChange payloads of the last operation
  catCalls,           \* onCategoryChange payloads of the last operation
  hits,               \* zones whose shape passed testIntersection in the last operation
  \* history of the pointer sequence since the last pointer-up
  downs,              \* pointer-downs delivered (0 or 1)
  moved,              \* a pointer-move was delivered after a pointer-down
  shiftAtStart,       \* isShiftPressed when the selection shape was created
  \* a call of one of the pure geometry and strategy functions
  probe               \* [fn, in, out] the function, its inputs and what it returned

vars == <<selected, currentCategory, zoneShapes, dragMode, selectionStrategy,
          isDragging, dragStart, selectionShape, clickedZoneId, isShiftPressed,
          subscribed, listening, lastOp, branch, calls, catCalls, hits, downs, moved,
          shiftAtStart, surfacePaths, probe>>

selectorVars == <<selected, currentCategory, zoneShapes, dragMode, selectionStrategy,
                  isDragging, dragStart, selectionShape, clickedZoneId,
                  isShiftPressed, subscribed, listening, lastOp, branch, calls,
                  catCalls, hits, downs, moved, shiftAtStart, surfacePaths>>

\* this.zones.filter(z => z.selected), as the set of ids
SelectedZones(sel) == {z \in Zones : sel[z]}
getSelectedZones == SelectedZones(selected)

\* this.zones.filter(zone => zone.category === this.currentCategory)
CurrentZones(cat) == {z \in Zones : CategoryOf(z) = cat}

(***************************************************************************)
(* Selection strategies (paper path based Lasso and Path strategies)       *)
(***************************************************************************)

\* variant: the default case returns instead of throwing
StrategyThrows_Never(mode) == FALSE

\* createSelectionStrategy: the strategy for a mode, or a throw
StrategyThrows(mode) == mode \notin DragModes

createSelectionStrategy(mode) == mode

\* createShape: new paper.Path(); path.moveTo(start)  (same in both strategies)
createShape(start) ==
  [points |-> <<start>>, closed |-> FALSE, inProject |-> TRUE]

\* updateShape: shape.lineTo(current)  (same in both strategies)
updateShape(shape, current) ==
  [shape EXCEPT !.points = Append(@, current)]

\* applyStyle: sets stroke width, dash pattern and stroke colour of the path.
\* The styling is cosmetic: no operation reads it back, so the path's record
\* carries no style field and the call leaves the record as it is.
applyStyle(strategy, shape, isShift) == shape

\* variant: the path strategy completes like the lasso strategy
completeSelection_ClosesBoth(strategy, shape, start) ==
  [shape EXCEPT !.points = Append(@, start), !.closed = TRUE]

\* completeSelection: lasso appends the start point and closes; path does nothing
completeSelection(strategy, shape, start) ==
  IF strategy = "lasso"
  THEN [shape EXCEPT !.points = Append(@, start), !.closed = TRUE]
  ELSE shape

\* testIntersection(shape, selection): the geometric verdict of
\* lassoContainsShape / pathIntersectsShape for zone z, given as the set
\* passing of zones whose shape the library finds inside / crossed
testIntersection(z, passing) == z \in passing

(***************************************************************************)
(* Containment and intersection helpers.  What each paper.js primitive     *)
(* answers for the two paths is an input: a primitive answers or raises.   *)
(***************************************************************************)
Inside == "inside"       \* contains(point) is true
Outside == "outside"     \* contains(point) is false
Fault == "fault"         \* the primitive raises
Answers == {Inside, Outside, Fault}

Crossing == "crossing"   \* getIntersections(...) is not empty
Apart == "apart"         \* getIntersections(...) is empty
CrossAnswers == {Crossing, Apart, Fault}

NoSegments == <<"missing">>   \* shape.segments is not there

NoProbe == [fn |-> "none", in |-> <<>>, out |-> <<>>]

\* scan of a for-loop over contains() tests: stops at the first test that is
\* true or raises; seen counts the tests evaluated
RECURSIVE ScanFrom(_, _)
ScanFrom(tests, i) ==
  IF i > Len(tests) THEN [answer |-> Outside, seen |-> Len(tests)]
  ELSE IF tests[i] # Outside THEN [answer |-> tests[i], seen |-> i]
  ELSE ScanFrom(tests, i + 1)

\* variant: the bounds corners are not tested
lassoTry_SkipsCorners(g) ==
  IF g.position # Outside
  THEN [answer |-> g.position, seen |-> 1]
  ELSE LET v == IF g.segments = NoSegments
                THEN [answer |-> Outside, seen |-> 0]
                ELSE ScanFrom(g.segments, 1)
       IN IF v.answer # Outside
          THEN [answer |-> v.answer, seen |-> 1 + v.seen]
          ELSE [answer |-> IF g.crossings = Crossing THEN Inside
                           ELSE IF g.crossings = Apart THEN Outside ELSE Fault,
                seen |-> 1 + v.seen + 1]

\* the try block of lassoContainsShape: position, vertices, bounds corners and
\* center, boundary intersections, in this order
lassoTry(g) ==
  IF g.position # Outside
  THEN [answer |-> g.position, seen |-> 1]
  ELSE LET v == IF g.segments = NoSegments
                THEN [answer |-> Outside, seen |-> 0]
                ELSE ScanFrom(g.segments, 1)
       IN IF v.answer # Outside
          THEN [answer |-> v.answer, seen |-> 1 + v.seen]
          ELSE LET c == ScanFrom(g.corners, 1)
               IN IF c.answer # Outside
                  THEN [answer |-> c.answer, seen |-> 1 + v.seen + c.seen]
                  ELSE [answer |-> IF g.crossings = Crossing THEN Inside
                                   ELSE IF g.crossings = Apart THEN Outside
                                   ELSE Fault,
                        seen |-> 1 + v.seen + c.seen + 1]

\* variant: the center fallback is not wrapped in its own try
lassoContainsShape_UnguardedFallback(g) ==
  LET t == lassoTry(g)
  IN IF t.answer # Fault
     THEN [result |-> t.answer = Inside, threw |-> FALSE, seen |-> t.seen,
           fellBack |-> FALSE]
     ELSE [result |-> g.positionAgain = Inside, threw |-> g.positionAgain = Fault,
           seen |-> t.seen, fellBack |-> TRUE]

\* lassoContainsShape(lasso, shape): the try block; on a raise the center test
\* alone, evaluated again; if that raises too, false
lassoContainsShape(g) ==
  LET t == lassoTry(g)
  IN IF t.answer # Fault
     THEN [result |-> t.answer = Inside, threw |-> FALSE, seen |-> t.seen,
           fellBack |-> FALSE]
     ELSE [result |-> IF g.positionAgain = Fault THEN FALSE
                      ELSE g.positionAgain = Inside,
           threw |-> FALSE, seen |-> t.seen, fellBack |-> TRUE]

MinSamples == 10      \* Math.max(10, ...)
SampleSpacing == 5    \* Math.floor(pathLength / 5)
Lengths == {0, 20, 60}   \* path lengths put to the sampling

\* variant: no minimum sample count
sampleCountOf_NoMinimum(pathLength) == pathLength \div SampleSpacing

sampleCountOf(pathLength) ==
  IF pathLength \div SampleSpacing > MinSamples
  THEN pathLength \div SampleSpacing ELSE MinSamples

\* what the i-th sample of the path answers: path.getPointAt(offset) gives no
\* point, or shape.contains(point) answers or raises
NoSamplePoint == "null"
sampleAt(p, i) ==
  IF i = p.faultAt THEN Fault
  ELSE IF i = p.nullAt THEN NoSamplePoint
  ELSE IF i = p.insideAt THEN Inside
  ELSE Outside

\* the for-loop over the samples i = from..sampleCount
RECURSIVE SampleFrom(_, _, _)
SampleFrom(p, i, sampleCount) ==
  IF i > sampleCount THEN [answer |-> Outside, seen |-> sampleCount + 1]
  ELSE IF sampleAt(p, i) \in {Inside, Fault}
       THEN [answer |-> sampleAt(p, i), seen |-> i + 1]
       ELSE SampleFrom(p, i + 1, sampleCount)

\* the try block of pathIntersectsShape: boundary intersections, then samples
pathTry(p) ==
  IF p.crossings = Fault THEN [answer |-> Fault, seen |-> 0]
  ELSE IF p.crossings = Crossing THEN [answer |-> Inside, seen |-> 0]
  ELSE IF p.lengthFaults THEN [answer |-> Fault, seen |-> 0]
  ELSE SampleFrom(p, 0, sampleCountOf(p.length))

Overlap == "overlap"     \* path.bounds.intersects(shape.bounds) is true
Disjoint == "disjoint"   \* it is false
BoundsAnswers == {Overlap, Disjoint, Fault}

\* pathIntersectsShape(path, shape): the try block; on a raise the bounds
\* overlap test, which is not inside a try
pathIntersectsShape(p) ==
  LET t == pathTry(p)
  IN IF t.answer # Fault
     THEN [result |-> t.answer = Inside, threw |-> FALSE, seen |-> t.seen,
           fellBack |-> FALSE]
     ELSE [result |-> p.bounds = Overlap, threw |-> p.bounds = Fault,
           seen |-> t.seen, fellBack |-> TRUE]

(***************************************************************************)
(* Rendering providers: growth of a SelectionShape [type, points].         *)
(* registered: the provider's registry holds the shape's id.               *)
(***************************************************************************)
Providers == {"CanvasRenderingProvider", "LeafletRenderingProvider"}

\* CanvasRenderingProvider.updateSelectionShape: both types add the point
CanvasRenderingProvider_updateSelectionShape(shape, currentPoint, startPoint, registered) ==
  IF ~registered THEN shape
  ELSE [shape EXCEPT !.points = Append(@, currentPoint)]

\* LeafletRenderingProvider.updateSelectionShape: lasso adds the point, path
\* keeps the start point and the current point only
LeafletRenderingProvider_updateSelectionShape(shape, currentPoint, startPoint, registered) ==
  IF ~registered THEN shape
  ELSE IF shape.type = "lasso"
  THEN [shape EXCEPT !.points = Append(@, currentPoint)]
  ELSE [shape EXCEPT !.points = <<startPoint, currentPoint>>]

updateSelectionShape(provider, shape, currentPoint, startPoint, registered) ==
  IF provider = "CanvasRenderingProvider"
  THEN CanvasRenderingProvider_updateSelectionShape(shape, currentPoint,
                                                    startPoint, registered)
  ELSE LeafletRenderingProvider_updateSelectionShape(shape, currentPoint,
                                                     startPoint, registered)

(***************************************************************************)
(* Rendering providers: event subscription.  A provider keeps one handler  *)
(* collection per event kind; on<Event>(handler) adds the handler and      *)
(* returns a handle that removes it.  The four methods of a provider have  *)
(* the same body.                                                          *)
(***************************************************************************)
EventKinds == {"mouseDown", "mouseMove", "mouseUp", "viewportChange"}
SubscriptionProviders == {"CanvasRenderingProvider", "MapboxRenderingProvider"}

\* handlers.indexOf(handler), counted from 1; 0: not found
indexOf(handlers, handler) ==
  IF \E i \in 1..Len(handlers) : handlers[i] = handler
  THEN CHOOSE i \in 1..Len(handlers) :
         /\ handlers[i] = handler
         /\ \A j \in 1..(i - 1) : handlers[j] # handler
  ELSE 0

\* handlers.splice(index, 1)
splice(handlers, index) ==
  SubSeq(handlers, 1, index - 1) \o SubSeq(handlers, index + 1, Len(handlers))

\* CanvasRenderingProvider (array of handlers): push
CanvasRenderingProvider_subscribe(handlers, handler) == Append(handlers, handler)

\* the handle: removes the first entry that is this function, if there is one
CanvasRenderingProvider_unsubscribe(handlers, handler) ==
  LET index == indexOf(handlers, handler)
  IN IF index > 0 THEN splice(handlers, index) ELSE handlers

\* MapboxRenderingProvider (Set of handlers, in insertion order): add
MapboxRenderingProvider_subscribe(handlers, handler) ==
  IF indexOf(handlers, handler) > 0 THEN handlers ELSE Append(handlers, handler)

\* the handle: Set.delete
MapboxRenderingProvider_unsubscribe(handlers, handler) ==
  LET index == indexOf(handlers, handler)
  IN IF index > 0 THEN splice(handlers, index) ELSE handlers

subscribe(provider, handlers, handler) ==
  IF provider = "CanvasRenderingProvider"
  THEN CanvasRenderingProvider_subscribe(handlers, handler)
  ELSE MapboxRenderingProvider_subscribe(handlers, handler)

unsubscribe(provider, handlers, handler) ==
  IF provider = "CanvasRenderingProvider"
  THEN CanvasRenderingProvider_unsubscribe(handlers, handler)
  ELSE MapboxRenderingProvider_unsubscribe(handlers, handler)

\* the collection after the registrations regs[i..], made in order
RECURSIVE SubscribeAll(_, _, _, _)
SubscribeAll(provider, handlers, regs, i) ==
  IF i > Len(regs) THEN handlers
  ELSE SubscribeAll(provider, subscribe(provider, handlers, regs[i]), regs, i + 1)

\* the collection after n calls of the handle of a registration of handler
RECURSIVE CallHandle(_, _, _, _)
CallHandle(provider, handlers, handler, n) ==
  IF n = 0 THEN handlers
  ELSE CallHandle(provider, unsubscribe(provider, handlers, handler), handler, n - 1)

(***************************************************************************)
(* Zone: the bounding box of the geometry, cached in the private field     *)
(* _bounds.  A zone is [geometry, cached, bounds]: cached says that        *)
(* _bounds is set, bounds is its value.  A geometry is [type, coordinates];*)
(* the coordinates are a sequence of <<lon, lat>> pairs (one pair for a    *)
(* Point).                                                                 *)
(***************************************************************************)
Infinity == 1000000    \* beyond every coordinate

mathMin(a, b) == IF a < b THEN a ELSE b
mathMax(a, b) == IF a > b THEN a ELSE b

\* the for-loop of calculateBounds over coords[i..]
RECURSIVE BoundsFrom(_, _, _)
BoundsFrom(coords, i, acc) ==
  IF i > Len(coords) THEN acc
  ELSE BoundsFrom(coords, i + 1,
                  [minX |-> mathMin(acc.minX, coords[i][1]),
                   maxX |-> mathMax(acc.maxX, coords[i][1]),
                   minY |-> mathMin(acc.minY, coords[i][2]),
                   maxY |-> mathMax(acc.maxY, coords[i][2])])

calculateBounds(geometry) ==
  IF geometry.type = "Point"
  THEN LET lon == geometry.coordinates[1][1]
           lat == geometry.coordinates[1][2]
       IN [minX |-> lon, maxX |-> lon, minY |-> lat, maxY |-> lat]
  ELSE BoundsFrom(geometry.coordinates, 1,
                  [minX |-> Infinity, maxX |-> -Infinity,
                   minY |-> Infinity, maxY |-> -Infinity])

\* getBounds(): what it returns and the zone it leaves
getBounds(zone) ==
  IF ~zone.cached
  THEN LET b == calculateBounds(zone.geometry)
       IN [bounds |-> b, zone |-> [zone EXCEPT !.cached = TRUE, !.bounds = b]]
  ELSE [bounds |-> zone.bounds, zone |-> zone]

\* new Zone(data): _bounds is undefined
newZone(geometry) ==
  [geometry |-> geometry, cached |-> FALSE,
   bounds |-> [minX |-> 0, maxX |-> 0, minY |-> 0, maxY |-> 0]]

(***************************************************************************)
(* ZoneSelector: construction from a configuration [zones, dragMode]       *)
(***************************************************************************)
NoStrategy == "none"           \* no strategy object
NoDragMode == "undefined"      \* config.dragMode left out

\* variant: every zone's category is kept
UniqueOf_KeepsDuplicates(cats, i, acc) ==
  [j \in 1..Len(cats) |-> cats[j]]

\* [...new Set(cats)]: the values in order of first insertion
RECURSIVE UniqueOf(_, _, _)
UniqueOf(cats, i, acc) ==
  IF i > Len(cats) THEN acc
  ELSE IF \E j \in 1..Len(acc) : acc[j] = cats[i]
       THEN UniqueOf(cats, i + 1, acc)
       ELSE UniqueOf(cats, i + 1, Append(acc, cats[i]))

\* the constructor: the fields it sets, or a throw of createSelectionStrategy
ZoneSelector_constructor(config) ==
  LET mode == IF config.dragMode = NoDragMode THEN "lasso" ELSE config.dragMode
      cats == UniqueOf([i \in 1..Len(config.zones) |-> config.zones[i].category],
                       1, <<>>)
      Chosen(z) == z.selected
  IN IF StrategyThrows(mode)
     THEN [threw |-> TRUE, dragMode |-> mode, selectionStrategy |-> NoStrategy,
           categories |-> <<>>, currentCategory |-> "", selectedZones |-> <<>>]
     ELSE [threw |-> FALSE, dragMode |-> mode,
           selectionStrategy |-> createSelectionStrategy(mode),
           categories |-> cats,
           currentCategory |-> IF Len(cats) > 0 THEN cats[1] ELSE "",
           selectedZones |-> SelectSeq(config.zones, Chosen)]

(***************************************************************************)
(* Numbers.  The transforms compute in floating point: every arithmetic    *)
(* operation yields the exact result rounded to the nearest representable  *)
(* value, ties to the even mantissa.  The model keeps that rule on a       *)
(* mantissa of MantissaBits bits instead of 53.  A number is m * 2^e,      *)
(* written [m, e] with m odd, or [0, 0].                                   *)
(***************************************************************************)
RECURSIVE Pow2(_)
Pow2(k) == IF k <= 0 THEN 1 ELSE 2 * Pow2(k - 1)

RECURSIVE BitLen(_)
BitLen(n) == IF n <= 0 THEN 0 ELSE 1 + BitLen(n \div 2)

Abs(n) == IF n < 0 THEN -n ELSE n
Sgn(n) == IF n < 0 THEN -1 ELSE 1

RECURSIVE Canon(_, _)
Canon(m, e) ==
  IF m = 0 THEN [m |-> 0, e |-> 0]
  ELSE IF Abs(m) % 2 = 0 THEN Canon(Sgn(m) * (Abs(m) \div 2), e + 1)
  ELSE [m |-> m, e |-> e]

\* the representable number nearest to M * 2^E; sticky: the exact value lies
\* beyond M * 2^E (away from zero) by less than one unit of M
Round(M, E, sticky) ==
  LET a == Abs(M)
      k == BitLen(a) - MantissaBits
  IN IF k <= 0 THEN Canon(M, E)
     ELSE LET q == a \div Pow2(k)
              r == a % Pow2(k)
              half == Pow2(k - 1)
              up == r > half \/ (r = half /\ (sticky \/ q % 2 = 1))
          IN Canon(Sgn(M) * (IF up THEN q + 1 ELSE q), E + k)

Num(i) == Round(i, 0, FALSE)
Neg(a) == [m |-> -a.m, e |-> a.e]

\* the exact sum, as an integer mantissa at the smaller exponent
ExactSum(a, b) ==
  LET e == IF a.e < b.e THEN a.e ELSE b.e
  IN [m |-> a.m * Pow2(a.e - e) + b.m * Pow2(b.e - e), e |-> e]

Plus(a, b) == LET s == ExactSum(a, b) IN Round(s.m, s.e, FALSE)
Minus(a, b) == Plus(a, Neg(b))
Times(a, b) == Round(a.m * b.m, a.e + b.e, FALSE)

\* a / b for b # 0: the quotient is taken with MantissaBits + 2 bits to spare
Over(a, b) ==
  LET shift == 2 * MantissaBits + 2
      n == Abs(a.m) * Pow2(shift)
      d == Abs(b.m)
  IN Round(Sgn(a.m) * Sgn(b.m) * (n \div d), a.e - b.e - shift, n % d # 0)

\* a <= b
AtMost(a, b) == ExactSum(b, Neg(a)).m >= 0

\* the offsets the loop of pathIntersectsShape samples a path of the length
\* at: (i / sampleCount) * pathLength for i = 0..sampleCount
sampleOffsets(pathLength) ==
  LET sampleCount == sampleCountOf(pathLength)
  IN [i \in 0..sampleCount |->
        Times(Over(Num(i), Num(sampleCount)), Num(pathLength))]

(***************************************************************************)
(* Coordinate transforms                                                   *)
(***************************************************************************)

\* variant: the vertical axis is not inverted
worldToCanvas_NoFlip(x, y, viewportBounds, canvasSize) ==
  LET worldWidth == Minus(viewportBounds.maxX, viewportBounds.minX)
      worldHeight == Minus(viewportBounds.maxY, viewportBounds.minY)
      canvasX == Times(Over(Minus(x, viewportBounds.minX), worldWidth),
                       canvasSize.width)
      canvasY == Times(Over(Minus(y, viewportBounds.minY), worldHeight),
                       canvasSize.height)
  IN [x |-> canvasX, y |-> canvasY]

\* worldToCanvas(x, y): the helper function and the provider's method compute
\* the same expression; the method takes the bounds and the size from the
\* provider's fields
worldToCanvas(x, y, viewportBounds, canvasSize) ==
  LET worldWidth == Minus(viewportBounds.maxX, viewportBounds.minX)
      worldHeight == Minus(viewportBounds.maxY, viewportBounds.minY)
      canvasX == Times(Over(Minus(x, viewportBounds.minX), worldWidth),
                       canvasSize.width)
      canvasY == Minus(canvasSize.height,
                       Times(Over(Minus(y, viewportBounds.minY), worldHeight),
                             canvasSize.height))
  IN [x |-> canvasX, y |-> canvasY]

\* variant: the vertical axis is not inverted back
canvasToWorld_NoFlip(point, viewportBounds, canvasSize) ==
  LET worldWidth == Minus(viewportBounds.maxX, viewportBounds.minX)
      worldHeight == Minus(viewportBounds.maxY, viewportBounds.minY)
      worldX == Plus(viewportBounds.minX,
                     Times(Over(point.x, canvasSize.width), worldWidth))
      worldY == Plus(viewportBounds.minY,
                     Times(Over(point.y, canvasSize.height), worldHeight))
  IN [x |-> worldX, y |-> worldY]

\* canvasToWorld(point): the provider's method, given the provider's bounds
\* and canvas size
canvasToWorld(point, viewportBounds, canvasSize) ==
  LET worldWidth == Minus(viewportBounds.maxX, viewportBounds.minX)
      worldHeight == Minus(viewportBounds.maxY, viewportBounds.minY)
      worldX == Plus(viewportBounds.minX,
                     Times(Over(point.x, canvasSize.width), worldWidth))
      worldY == Plus(viewportBounds.minY,
                     Times(Over(Minus(canvasSize.height, point.y),
                                canvasSize.height),
                           worldHeight))
  IN [x |-> worldX, y |-> worldY]

(***************************************************************************)
(* ZoneSelector: rendering                                                 *)
(***************************************************************************)

\* variant: render() draws every zone, whatever its category
renderShapes_AllZones(cat) == Zones

\* render(): paper.project.clear() takes every item off the project, the
\* in-progress selection path included; then the current category is drawn
renderShapes(cat) == CurrentZones(cat)

renderSelection(shape) ==
  IF shape = NoShape THEN NoShape ELSE [shape EXCEPT !.inProject = FALSE]
renderSurface == 0

\* renderZone(zone): replaces the zone's shape and registers it
renderZone(shapes, z) == shapes \cup {z}

(***************************************************************************)
(* ZoneSelector: selection operations, as functions of the fields they     *)
(* read; each returns the fields it writes and the callbacks it fires      *)
(***************************************************************************)

shapeIntersectsSelection(z, passing) == testIntersection(z, passing)

\* variant: the flag is flipped but the callback is not fired
toggleZoneSelection_NoCallback(sel, cat, shapes, zoneId) ==
  IF zoneId \notin Zones \/ CategoryOf(zoneId) # cat
  THEN [selected |-> sel, zoneShapes |-> shapes, calls |-> <<>>]
  ELSE [selected |-> [sel EXCEPT ![zoneId] = ~@],
        zoneShapes |-> renderZone(shapes, zoneId), calls |-> <<>>]

\* variant: no check of the zone's category (as in the snapshots that precede
\* the category filter)
toggleZoneSelection_NoCategoryCheck(sel, cat, shapes, zoneId) ==
  IF zoneId \notin Zones
  THEN [selected |-> sel, zoneShapes |-> shapes, calls |-> <<>>]
  ELSE LET flipped == [sel EXCEPT ![zoneId] = ~@]
       IN [selected |-> flipped, zoneShapes |-> renderZone(shapes, zoneId),
           calls |-> <<SelectedZones(flipped)>>]

\* variant: the callback reports the selected zones of the current category only
toggleZoneSelection_CurrentOnlyPayload(sel, cat, shapes, zoneId) ==
  IF zoneId \notin Zones \/ CategoryOf(zoneId) # cat
  THEN [selected |-> sel, zoneShapes |-> shapes, calls |-> <<>>]
  ELSE LET flipped == [sel EXCEPT ![zoneId] = ~@]
       IN [selected |-> flipped, zoneShapes |-> renderZone(shapes, zoneId),
           calls |-> <<SelectedZones(flipped) \cap CurrentZones(cat)>>]

\* variant: the flag is set to true instead of being inverted
toggleZoneSelection_SelectsOnly(sel, cat, shapes, zoneId) ==
  IF zoneId \notin Zones \/ CategoryOf(zoneId) # cat
  THEN [selected |-> sel, zoneShapes |-> shapes, calls |-> <<>>]
  ELSE LET flipped == [sel EXCEPT ![zoneId] = TRUE]
       IN [selected |-> flipped, zoneShapes |-> renderZone(shapes, zoneId),
           calls |-> <<SelectedZones(flipped)>>]

\* toggleZoneSelection(zoneId): ignored for an unknown id and for a zone outside
\* the current category; otherwise flips the flag, redraws the zone and reports
\* the selected zones
toggleZoneSelection(sel, cat, shapes, zoneId) ==
  IF zoneId \notin Zones
  THEN [selected |-> sel, zoneShapes |-> shapes, calls |-> <<>>]
  ELSE IF CategoryOf(zoneId) # cat
  THEN [selected |-> sel, zoneShapes |-> shapes, calls |-> <<>>]
  ELSE LET flipped == [sel EXCEPT ![zoneId] = ~@]
       IN [selected |-> flipped, zoneShapes |-> renderZone(shapes, zoneId),
           calls |-> <<SelectedZones(flipped)>>]

\* variant: the guard reads zone.selected instead of !zone.selected
selectZonesInShape_InvertedGuard(sel, cat, shapes, passing) ==
  LET changed == {z \in CurrentZones(cat) :
                    z \in shapes /\ shapeIntersectsSelection(z, passing) /\ sel[z]}
      after == [z \in Zones |-> IF z \in changed THEN TRUE ELSE sel[z]]
  IN [selected |-> after,
      calls |-> IF changed # {} THEN <<SelectedZones(after)>> ELSE <<>>]

\* variant: the callback is fired whether or not a flag changed
selectZonesInShape_AlwaysCallback(sel, cat, shapes, passing) ==
  LET changed == {z \in CurrentZones(cat) :
                    z \in shapes /\ shapeIntersectsSelection(z, passing) /\ ~sel[z]}
      after == [z \in Zones |-> IF z \in changed THEN TRUE ELSE sel[z]]
  IN [selected |-> after, calls |-> <<SelectedZones(after)>>]

\* selectZonesInShape(shape): selects every unselected zone of the current
\* category whose drawn shape passes the test; one callback if any changed
selectZonesInShape(sel, cat, shapes, passing) ==
  LET changed == {z \in CurrentZones(cat) :
                    z \in shapes /\ shapeIntersectsSelection(z, passing) /\ ~sel[z]}
      after == [z \in Zones |-> IF z \in changed THEN TRUE ELSE sel[z]]
  IN [selected |-> after,
      calls |-> IF changed # {} THEN <<SelectedZones(after)>> ELSE <<>>]

\* variant: the geometric test is left out of the guard
deselectZonesInShape_IgnoresTest(sel, cat, shapes, passing) ==
  LET changed == {z \in CurrentZones(cat) : z \in shapes /\ sel[z]}
      after == [z \in Zones |-> IF z \in changed THEN FALSE ELSE sel[z]]
  IN [selected |-> after,
      calls |-> IF changed # {} THEN <<SelectedZones(after)>> ELSE <<>>]

\* deselectZonesInShape(shape): the same with the flag cleared
deselectZonesInShape(sel, cat, shapes, passing) ==
  LET changed == {z \in CurrentZones(cat) :
                    z \in shapes /\ shapeIntersectsSelection(z, passing) /\ sel[z]}
      after == [z \in Zones |-> IF z \in changed THEN FALSE ELSE sel[z]]
  IN [selected |-> after,
      calls |-> IF changed # {} THEN <<SelectedZones(after)>> ELSE <<>>]

\* variant: the Shift state is not consulted, the drag always selects
completeDragSelection_IgnoresShift(strategy, shape, start, isShift, sel, cat, shapes, passing) ==
  IF shape = NoShape \/ start = NoPoint
  THEN [selected |-> sel, calls |-> <<>>, completed |-> shape]
  ELSE LET r == selectZonesInShape(sel, cat, shapes, passing)
       IN [selected |-> r.selected, calls |-> r.calls,
           completed |-> completeSelection(strategy, shape, start)]

\* completeDragSelection(): completes the shape with the active strategy, then
\* deselects under Shift and selects otherwise
completeDragSelection(strategy, shape, start, isShift, sel, cat, shapes, passing) ==
  IF shape = NoShape \/ start = NoPoint
  THEN [selected |-> sel, calls |-> <<>>, completed |-> shape]
  ELSE LET done == completeSelection(strategy, shape, start)
           r == IF isShift
                THEN deselectZonesInShape(sel, cat, shapes, passing)
                ELSE selectZonesInShape(sel, cat, shapes, passing)
       IN [selected |-> r.selected, calls |-> r.calls, completed |-> done]

\* the zones a drag completion puts to the geometric test
TestedZones(cat, shapes) == CurrentZones(cat) \cap shapes

(***************************************************************************)
(* Initial state: the state the constructor leaves                         *)
(***************************************************************************)
Init ==
  /\ selected \in [Zones -> BOOLEAN]
  /\ currentCategory = (IF Len(categories) > 0 THEN categories[1] ELSE "")
  /\ zoneShapes = renderShapes(currentCategory)
  /\ dragMode = "lasso"
  /\ selectionStrategy = createSelectionStrategy("lasso")
  /\ isDragging = FALSE
  /\ dragStart = NoPoint
  /\ selectionShape = NoShape
  /\ clickedZoneId = NoZone
  /\ isShiftPressed = FALSE
  /\ subscribed = TRUE
  /\ listening = TRUE
  /\ lastOp = [op |-> "constructor", arg |-> "", after |-> ""]
  /\ branch = "none"
  /\ calls = <<>>
  /\ catCalls = <<>>
  /\ hits = {}
  /\ downs = 0
  /\ moved = FALSE
  /\ shiftAtStart = FALSE
  /\ surfacePaths = 0
  /\ probe = NoProbe

ghostOp == <<lastOp, branch, calls, catCalls, hits>>
ghostGesture == <<downs, moved, shiftAtStart>>
dragState == <<isDragging, dragStart, selectionShape, surfacePaths, clickedZoneId>>

\* history of an operation that is no pointer-up and no drag completion
Record(op, arg, selCalls, categoryCalls) ==
  /\ lastOp' = [op |-> op, arg |-> arg, after |-> ""]
  /\ branch' = "none"
  /\ calls' = selCalls
  /\ catCalls' = categoryCalls
  /\ hits' = {}
  /\ UNCHANGED probe

(***************************************************************************)
(* Pointer and viewport events, delivered by the rendering provider to the *)
(* handlers setupEventHandlers registered.  After destroy() the provider's *)
(* handler arrays are empty and an event reaches no handler.               *)
(***************************************************************************)

\* the zone ids provider.hitTest can return: a zone drawn on the project, or null
HitResults == zoneShapes \cup {NoZone}

\* variant: the hit zone is toggled at once (as in the first snapshot's handler)
onMouseDown_TogglesOnDown(point, hit, sel, cat, shapes) ==
  LET r == toggleZoneSelection(sel, cat, shapes, hit)
  IN [dragStart |-> point, clickedZoneId |-> hit,
      selected |-> r.selected, zoneShapes |-> r.zoneShapes, calls |-> r.calls]

\* onMouseDown handler: stores dragStart and the hit zone id; it writes no
\* zone flag and fires no callback
onMouseDown(point, hit, sel, cat, shapes) ==
  [dragStart |-> point, clickedZoneId |-> hit,
   selected |-> sel, zoneShapes |-> shapes, calls |-> <<>>]

\* The provider delivers pointer-down, zero or more pointer-moves, then one
\* pointer-up per gesture (its ordering guarantee): no second pointer-down
\* arrives while a gesture is in flight.  Moves and ups may arrive at any time.
GestureInFlight == downs > 0

OnMouseDown ==
  \E point \in Points, hit \in HitResults :
    /\ ~GestureInFlight
    /\ IF subscribed
       THEN LET r == onMouseDown(point, hit, selected, currentCategory, zoneShapes)
            IN /\ dragStart' = r.dragStart
               /\ clickedZoneId' = r.clickedZoneId
               /\ selected' = r.selected
               /\ zoneShapes' = r.zoneShapes
               /\ Record("mouseDown", hit, r.calls, <<>>)
               /\ downs' = 1
               /\ moved' = FALSE
               /\ shiftAtStart' = FALSE
       ELSE /\ Record("mouseDown", hit, <<>>, <<>>)
            /\ UNCHANGED <<dragStart, clickedZoneId, selected, zoneShapes,
                           ghostGesture>>
    /\ UNCHANGED <<currentCategory, dragMode, selectionStrategy, isDragging,
                   selectionShape, surfacePaths, isShiftPressed, subscribed,
                   listening>>

\* variant: isDragging is assigned the start condition instead of being set
onMouseMove_AssignsStartCondition(point, dragging, start, shape, strategy, isShift, paths) ==
  LET starts == ~dragging /\ start # NoPoint
      shape1 == IF starts
                THEN applyStyle(strategy, createShape(start), isShift)
                ELSE shape
      grows == (dragging \/ starts) /\ start # NoPoint /\ shape1 # NoShape
      shape2 == IF grows
                THEN applyStyle(strategy, updateShape(shape1, point), isShift)
                ELSE shape1
  IN [isDragging |-> starts, selectionShape |-> shape2, starts |-> starts,
      surfacePaths |-> IF starts THEN paths + 1 ELSE paths]

\* variant: a drag starts only when the pointer has left the start point
onMouseMove_NeedsDistance(point, dragging, start, shape, strategy, isShift, paths) ==
  LET starts == ~dragging /\ start # NoPoint /\ point # start
      dragging1 == dragging \/ starts
      shape1 == IF starts
                THEN applyStyle(strategy, createShape(start), isShift)
                ELSE shape
      grows == dragging1 /\ start # NoPoint /\ shape1 # NoShape
      shape2 == IF grows
                THEN applyStyle(strategy, updateShape(shape1, point), isShift)
                ELSE shape1
  IN [isDragging |-> dragging1, selectionShape |-> shape2, starts |-> starts,
      surfacePaths |-> IF starts THEN paths + 1 ELSE paths]

\* variant: a move starts a drag whether or not a pointer-down is pending
onMouseMove_StartsWithoutDown(point, dragging, start, shape, strategy, isShift, paths) ==
  LET starts == ~dragging
      shape1 == IF starts
                THEN applyStyle(strategy,
                                createShape(IF start = NoPoint THEN point ELSE start),
                                isShift)
                ELSE shape
      shape2 == applyStyle(strategy, updateShape(shape1, point), isShift)
  IN [isDragging |-> TRUE, selectionShape |-> shape2, starts |-> starts,
      surfacePaths |-> IF starts THEN paths + 1 ELSE paths]

\* variant: the move that starts the drag creates the shape without growing it
onMouseMove_CreatesOnly(point, dragging, start, shape, strategy, isShift, paths) ==
  LET starts == ~dragging /\ start # NoPoint
      shape1 == IF starts
                THEN applyStyle(strategy, createShape(start), isShift)
                ELSE shape
      grows == dragging /\ start # NoPoint /\ shape1 # NoShape
      shape2 == IF grows
                THEN applyStyle(strategy, updateShape(shape1, point), isShift)
                ELSE shape1
  IN [isDragging |-> dragging \/ starts, selectionShape |-> shape2,
      starts |-> starts,
      surfacePaths |-> IF starts THEN paths + 1 ELSE paths]

\* onMouseMove handler: the first move after a pointer-down starts the drag and
\* creates the shape; every move of a drag grows and restyles the shape
onMouseMove(point, dragging, start, shape, strategy, isShift, paths) ==
  LET starts == ~dragging /\ start # NoPoint
      dragging1 == dragging \/ starts
      shape1 == IF starts
                THEN applyStyle(strategy, createShape(start), isShift)
                ELSE shape
      grows == dragging1 /\ start # NoPoint /\ shape1 # NoShape
      shape2 == IF grows
                THEN applyStyle(strategy, updateShape(shape1, point), isShift)
                ELSE shape1
  IN [isDragging |-> dragging1, selectionShape |-> shape2, starts |-> starts,
      surfacePaths |-> IF starts THEN paths + 1 ELSE paths]

OnMouseMove ==
  \E point \in Points :
    /\ IF subscribed
       THEN LET r == onMouseMove(point, isDragging, dragStart, selectionShape,
                                 selectionStrategy, isShiftPressed, surfacePaths)
            IN /\ Len(r.selectionShape.points) <= MaxPoints
               /\ isDragging' = r.isDragging
               /\ selectionShape' = r.selectionShape
               /\ surfacePaths' = r.surfacePaths
               /\ moved' = (moved \/ downs > 0)
               /\ shiftAtStart' = (IF r.starts THEN isShiftPressed ELSE shiftAtStart)
               /\ UNCHANGED downs
       ELSE UNCHANGED <<isDragging, selectionShape, surfacePaths, ghostGesture>>
    /\ Record("mouseMove", "", <<>>, <<>>)
    /\ UNCHANGED <<selected, currentCategory, zoneShapes, dragMode,
                   selectionStrategy, dragStart, clickedZoneId,
                   isShiftPressed, subscribed, listening>>

\* shape.remove(): takes the path off the project if it is an item of it
removeShape(shape, paths) == IF shape.inProject THEN paths - 1 ELSE paths

\* variant: the reset at the end of the handler leaves clickedZoneId
resetDragState_KeepsClicked(r) ==
  r @@ [isDragging |-> FALSE, dragStart |-> NoPoint]

\* the reset at the end of the pointer-up handler: isDragging = false,
\* dragStart = null, clickedZoneId = null
resetDragState(r) ==
  [r EXCEPT !.clickedZoneId = NoZone] @@ [isDragging |-> FALSE, dragStart |-> NoPoint]

\* variant: the click branch is a second if, not an else-if on !isDragging
onMouseUp_ClickAfterDrag(dragging, start, shape, clicked, strategy, isShift, sel, cat, shapes, passing, paths) ==
  LET drags == dragging /\ start # NoPoint /\ shape # NoShape
      d == IF drags
           THEN completeDragSelection(strategy, shape, start, isShift,
                                      sel, cat, shapes, passing)
           ELSE [selected |-> sel, calls |-> <<>>, completed |-> shape]
      t == IF clicked # NoZone
           THEN toggleZoneSelection(d.selected, cat, shapes, clicked)
           ELSE [selected |-> d.selected, zoneShapes |-> shapes, calls |-> <<>>]
  IN resetDragState(
       [selected |-> t.selected, zoneShapes |-> t.zoneShapes,
        calls |-> d.calls \o t.calls,
        branch |-> IF drags THEN "drag" ELSE IF clicked # NoZone THEN "click" ELSE "none",
        hits |-> IF drags THEN {z \in TestedZones(cat, shapes) :
                                  testIntersection(z, passing)} ELSE {},
        selectionShape |-> IF drags THEN NoShape ELSE shape,
        surfacePaths |-> IF drags THEN removeShape(shape, paths) ELSE paths,
        clickedZoneId |-> clicked])

\* variant: the drag branch drops the reference without shape.remove()
onMouseUp_NoRemove(dragging, start, shape, clicked, strategy, isShift, sel, cat, shapes, passing, paths) ==
  resetDragState(
    IF dragging /\ start # NoPoint /\ shape # NoShape
    THEN LET r == completeDragSelection(strategy, shape, start, isShift,
                                        sel, cat, shapes, passing)
         IN [selected |-> r.selected, zoneShapes |-> shapes, calls |-> r.calls,
             branch |-> "drag",
             hits |-> {z \in TestedZones(cat, shapes) : testIntersection(z, passing)},
             selectionShape |-> NoShape, surfacePaths |-> paths,
             clickedZoneId |-> clicked]
    ELSE IF ~dragging /\ clicked # NoZone
    THEN LET r == toggleZoneSelection(sel, cat, shapes, clicked)
         IN [selected |-> r.selected, zoneShapes |-> r.zoneShapes, calls |-> r.calls,
             branch |-> "click", hits |-> {},
             selectionShape |-> shape, surfacePaths |-> paths,
             clickedZoneId |-> clicked]
    ELSE [selected |-> sel, zoneShapes |-> shapes, calls |-> <<>>,
          branch |-> "none", hits |-> {},
          selectionShape |-> shape, surfacePaths |-> paths,
          clickedZoneId |-> clicked])

\* variant: the handler ends without clearing clickedZoneId
onMouseUp_KeepsClicked(dragging, start, shape, clicked, strategy, isShift, sel, cat, shapes, passing, paths) ==
  resetDragState_KeepsClicked(
    IF dragging /\ start # NoPoint /\ shape # NoShape
    THEN LET r == completeDragSelection(strategy, shape, start, isShift,
                                        sel, cat, shapes, passing)
         IN [selected |-> r.selected, zoneShapes |-> shapes, calls |-> r.calls,
             branch |-> "drag",
             hits |-> {z \in TestedZones(cat, shapes) : testIntersection(z, passing)},
             selectionShape |-> NoShape, surfacePaths |-> removeShape(shape, paths),
             clickedZoneId |-> clicked]
    ELSE IF ~dragging /\ clicked # NoZone
    THEN LET r == toggleZoneSelection(sel, cat, shapes, clicked)
         IN [selected |-> r.selected, zoneShapes |-> r.zoneShapes, calls |-> r.calls,
             branch |-> "click", hits |-> {},
             selectionShape |-> shape, surfacePaths |-> paths,
             clickedZoneId |-> clicked]
    ELSE [selected |-> sel, zoneShapes |-> shapes, calls |-> <<>>,
          branch |-> "none", hits |-> {},
          selectionShape |-> shape, surfacePaths |-> paths,
          clickedZoneId |-> clicked])

\* onMouseUp handler: completes a drag and removes its shape, or toggles the
\* clicked zone, then resets the drag state.  passing is the geometric verdict
\* of the library.
onMouseUp(dragging, start, shape, clicked, strategy, isShift, sel, cat, shapes, passing, paths) ==
  resetDragState(
    IF dragging /\ start # NoPoint /\ shape # NoShape
    THEN LET r == completeDragSelection(strategy, shape, start, isShift,
                                        sel, cat, shapes, passing)
         IN [selected |-> r.selected, zoneShapes |-> shapes, calls |-> r.calls,
             branch |-> "drag",
             hits |-> {z \in TestedZones(cat, shapes) : testIntersection(z, passing)},
             selectionShape |-> NoShape, surfacePaths |-> removeShape(shape, paths),
             clickedZoneId |-> clicked]
    ELSE IF ~dragging /\ clicked # NoZone
    THEN LET r == toggleZoneSelection(sel, cat, shapes, clicked)
         IN [selected |-> r.selected, zoneShapes |-> r.zoneShapes, calls |-> r.calls,
             branch |-> "click", hits |-> {},
             selectionShape |-> shape, surfacePaths |-> paths,
             clickedZoneId |-> clicked]
    ELSE [selected |-> sel, zoneShapes |-> shapes, calls |-> <<>>,
          branch |-> "none", hits |-> {},
          selectionShape |-> shape, surfacePaths |-> paths,
          clickedZoneId |-> clicked])

\* the verdicts the library can give on the tested zones; no test is made
\* unless a drag is completed
Verdicts ==
  IF subscribed /\ isDragging
  THEN SUBSET TestedZones(currentCategory, zoneShapes)
  ELSE {{}}

OnMouseUp ==
  \E passing \in Verdicts :
    /\ IF subscribed
       THEN LET r == onMouseUp(isDragging, dragStart, selectionShape, clickedZoneId,
                               selectionStrategy, isShiftPressed, selected,
                               currentCategory, zoneShapes, passing, surfacePaths)
            IN /\ selected' = r.selected
               /\ zoneShapes' = r.zoneShapes
               /\ calls' = r.calls
               /\ branch' = r.branch
               /\ hits' = r.hits
               /\ selectionShape' = r.selectionShape
               /\ surfacePaths' = r.surfacePaths
               /\ isDragging' = r.isDragging
               /\ dragStart' = r.dragStart
               /\ clickedZoneId' = r.clickedZoneId
               /\ downs' = 0
               /\ moved' = FALSE
               /\ UNCHANGED shiftAtStart
       ELSE /\ calls' = <<>> /\ branch' = "none" /\ hits' = {}
            /\ UNCHANGED <<selected, zoneShapes, dragState, ghostGesture>>
    /\ lastOp' = [op |-> "mouseUp", arg |-> clickedZoneId, after |-> lastOp.op]
    /\ UNCHANGED probe
    /\ catCalls' = <<>>
    /\ UNCHANGED <<currentCategory, dragMode, selectionStrategy,
                   isShiftPressed, subscribed, listening>>

\* onViewportChange handler: render()
OnViewportChange ==
  /\ IF subscribed
     THEN /\ zoneShapes' = renderShapes(currentCategory)
          /\ selectionShape' = renderSelection(selectionShape)
          /\ surfacePaths' = renderSurface
     ELSE UNCHANGED <<zoneShapes, selectionShape, surfacePaths>>
  /\ Record("viewportChange", "", <<>>, <<>>)
  /\ UNCHANGED <<selected, currentCategory, dragMode, selectionStrategy,
                 isDragging, dragStart, clickedZoneId, isShiftPressed,
                 subscribed, listening, ghostGesture>>

(***************************************************************************)
(* Keyboard events on the document                                         *)
(***************************************************************************)
\* variant: every key sets the modifier state
handleKeyDown_AnyKey(key, pressed) == TRUE

handleKeyDown(key, pressed) == IF key = "Shift" THEN TRUE ELSE pressed

handleKeyUp(key, pressed) == IF key = "Shift" THEN FALSE ELSE pressed

HandleKeyDown ==
  \E key \in Keys :
    /\ isShiftPressed' = (IF listening THEN handleKeyDown(key, isShiftPressed)
                          ELSE isShiftPressed)
    /\ Record("keyDown", key, <<>>, <<>>)
    /\ UNCHANGED <<selected, currentCategory, zoneShapes, dragMode,
                   selectionStrategy, dragState, subscribed, listening,
                   ghostGesture>>

HandleKeyUp ==
  \E key \in Keys :
    /\ isShiftPressed' = (IF listening THEN handleKeyUp(key, isShiftPressed)
                          ELSE isShiftPressed)
    /\ Record("keyUp", key, <<>>, <<>>)
    /\ UNCHANGED <<selected, currentCategory, zoneShapes, dragMode,
                   selectionStrategy, dragState, subscribed, listening,
                   ghostGesture>>

(***************************************************************************)
(* Public operations                                                       *)
(***************************************************************************)
\* The caller uses the public operations of a selector it has not destroyed.
Alive == subscribed

ToggleZoneSelection ==
  \E zoneId \in Zones \cup {UnknownZone} :
    /\ Alive
    /\ LET r == toggleZoneSelection(selected, currentCategory, zoneShapes, zoneId)
       IN /\ selected' = r.selected
          /\ zoneShapes' = r.zoneShapes
          /\ Record("toggleZoneSelection", zoneId, r.calls, <<>>)
    /\ UNCHANGED <<currentCategory, dragMode, selectionStrategy, dragState,
                   isShiftPressed, subscribed, listening, ghostGesture>>

\* variant: the switch also clears the selection
setCategory_ClearsSelection(category, cat, shapes, shape, sel) ==
  IF category \notin CategorySet
  THEN [currentCategory |-> cat, zoneShapes |-> shapes, selectionShape |-> shape,
        selected |-> sel, catCalls |-> <<>>, rendered |-> FALSE]
  ELSE [currentCategory |-> category, zoneShapes |-> renderShapes(category),
        selectionShape |-> renderSelection(shape),
        selected |-> [z \in Zones |-> FALSE], catCalls |-> <<category>>,
        rendered |-> TRUE]

\* variant: no check that the category is known
setCategory_NoCheck(category, cat, shapes, shape, sel) ==
  [currentCategory |-> category, zoneShapes |-> renderShapes(category),
   selectionShape |-> renderSelection(shape), selected |-> sel,
   catCalls |-> <<category>>, rendered |-> TRUE]

\* setCategory(category): ignored unless the category is known; otherwise
\* switches, re-renders and reports the category
setCategory(category, cat, shapes, shape, sel) ==
  IF category \notin CategorySet
  THEN [currentCategory |-> cat, zoneShapes |-> shapes, selectionShape |-> shape,
        selected |-> sel, catCalls |-> <<>>, rendered |-> FALSE]
  ELSE [currentCategory |-> category, zoneShapes |-> renderShapes(category),
        selectionShape |-> renderSelection(shape), selected |-> sel,
        catCalls |-> <<category>>, rendered |-> TRUE]

SetCategory ==
  \E category \in CategorySet \cup {UnknownCategory} :
    /\ Alive
    /\ LET r == setCategory(category, currentCategory, zoneShapes, selectionShape,
                            selected)
       IN /\ currentCategory' = r.currentCategory
          /\ zoneShapes' = r.zoneShapes
          /\ selectionShape' = r.selectionShape
          /\ selected' = r.selected
          /\ surfacePaths' = (IF r.rendered THEN renderSurface ELSE surfacePaths)
          /\ Record("setCategory", category, <<>>, r.catCalls)
    /\ UNCHANGED <<dragMode, selectionStrategy, isDragging, dragStart,
                   clickedZoneId, isShiftPressed, subscribed, listening,
                   ghostGesture>>

\* variant: only the zones of the first category are unselected
clearSelection_FirstCategoryOnly(sel) ==
  [z \in Zones |-> IF CategoryOf(z) = categories[1] THEN FALSE ELSE sel[z]]

\* clearSelection(): unselects every zone, re-renders, reports the empty list
clearSelection(sel) == [z \in Zones |-> FALSE]

ClearSelection ==
  /\ Alive
  /\ selected' = clearSelection(selected)
  /\ zoneShapes' = renderShapes(currentCategory)
  /\ selectionShape' = renderSelection(selectionShape)
  /\ surfacePaths' = renderSurface
  /\ Record("clearSelection",
            IF getSelectedZones = {} THEN "none selected" ELSE "some selected",
            << {} >>, <<>>)
  /\ UNCHANGED <<currentCategory, dragMode, selectionStrategy, isDragging,
                 dragStart, clickedZoneId, isShiftPressed, subscribed, listening,
                 ghostGesture>>

\* setDragMode(mode): stores the mode, then builds the strategy (which throws
\* on an unknown mode, after the mode was stored)
SetDragMode ==
  \E mode \in DragModes \cup {UnknownMode} :
    /\ Alive
    /\ dragMode' = mode
    /\ selectionStrategy' = (IF StrategyThrows(mode) THEN selectionStrategy
                             ELSE createSelectionStrategy(mode))
    /\ Record("setDragMode", mode, <<>>, <<>>)
    /\ UNCHANGED <<selected, currentCategory, zoneShapes, dragState,
                   isShiftPressed, subscribed, listening, ghostGesture>>

\* variant: the document listeners stay registered
Destroy_KeepsListeners ==
  /\ subscribed
  /\ subscribed' = FALSE
  /\ UNCHANGED listening
  /\ zoneShapes' = {}
  /\ selectionShape' = renderSelection(selectionShape)
  /\ surfacePaths' = renderSurface
  /\ Record("destroy", "", <<>>, <<>>)
  /\ UNCHANGED <<selected, currentCategory, dragMode, selectionStrategy,
                 isDragging, dragStart, clickedZoneId, isShiftPressed,
                 ghostGesture>>

\* destroy(): provider.destroy() clears the project and the handler arrays;
\* zoneShapes is cleared and the document listeners are removed
Destroy ==
  /\ subscribed
  /\ subscribed' = FALSE
  /\ listening' = FALSE
  /\ zoneShapes' = {}
  /\ selectionShape' = renderSelection(selectionShape)
  /\ surfacePaths' = renderSurface
  /\ Record("destroy", "", <<>>, <<>>)
  /\ UNCHANGED <<selected, currentCategory, dragMode, selectionStrategy,
                 isDragging, dragStart, clickedZoneId, isShiftPressed,
                 ghostGesture>>

Next ==
  \/ OnMouseDown
  \/ OnMouseMove
  \/ OnMouseUp
  \/ OnViewportChange
  \/ HandleKeyDown
  \/ HandleKeyUp
  \/ ToggleZoneSelection
  \/ SetCategory
  \/ ClearSelection
  \/ SetDragMode
  \/ Destroy

Spec == Init /\ [][Next]_vars

(***************************************************************************)
(* The pure functions, applied once to inputs drawn from bounded sets      *)
(***************************************************************************)
SegmentInputs ==
  {NoSegments} \cup UNION {[1..n -> Answers] : n \in 0..MaxVertices}
CornerInputs == [1..5 -> Answers]

LassoInputs ==
  [position : Answers, segments : SegmentInputs, corners : CornerInputs,
   crossings : CrossAnswers, positionAgain : Answers]

LassoContainsShape ==
  /\ probe.fn = "none"
  /\ \E g \in LassoInputs :
       /\ probe' = [fn |-> "lassoContainsShape", in |-> g, out |-> lassoContainsShape(g)]
       /\ UNCHANGED selectorVars

SampleIndexes == -1..sampleCountOf(60)   \* -1: no such sample

PathInputs ==
  [crossings : CrossAnswers, lengthFaults : BOOLEAN, length : Lengths,
   insideAt : SampleIndexes, nullAt : SampleIndexes, faultAt : SampleIndexes,
   bounds : BoundsAnswers]

PathIntersectsShape ==
  /\ probe.fn = "none"
  /\ \E p \in PathInputs :
       /\ probe' = [fn |-> "pathIntersectsShape", in |-> p, out |-> pathIntersectsShape(p)]
       /\ UNCHANGED selectorVars

\* a shape as the selector builds it: createShape(start), then updateShape
ShapeInputs ==
  {[points |-> pts, closed |-> FALSE, inProject |-> TRUE] :
     pts \in UNION {[1..n -> Points] : n \in 1..MaxPoints}}

CompleteSelection ==
  /\ probe.fn = "none"
  /\ \E strategy \in DragModes, shape \in ShapeInputs :
       /\ probe' = [fn |-> "completeSelection",
                    in |-> [strategy |-> strategy, shape |-> shape,
                            start |-> shape.points[1]],
                    out |-> completeSelection(strategy, shape, shape.points[1])]
       /\ UNCHANGED selectorVars

\* the viewport and the canvas of the helper tests, and further snapshots
TestViewport ==
  [minX |-> Num(-10), maxX |-> Num(10), minY |-> Num(-10), maxY |-> Num(10)]
TestCanvasSize == [width |-> Num(800), height |-> Num(600)]

Ranges == {<<-10, 10>>, <<0, 3>>, <<-10, 0>>}
ViewportInputs ==
  {[minX |-> Num(rx[1]), maxX |-> Num(rx[2]),
    minY |-> Num(ry[1]), maxY |-> Num(ry[2])] : rx \in Ranges, ry \in Ranges}
SizeInputs == {TestCanvasSize, [width |-> Num(3), height |-> Num(7)]}

Centre(lo, hi) == Over(Plus(lo, hi), Num(2))
\* world coordinates: the ends and the centre of the range, and points in
\* and out of it
Coordinates(lo, hi) ==
  {lo, hi, Centre(lo, hi)} \cup {Num(i) : i \in {-9, 0, 1, 11}}

WorldToCanvas ==
  /\ probe.fn = "none"
  /\ \E b \in ViewportInputs, size \in SizeInputs :
       \E x \in Coordinates(b.minX, b.maxX), y \in Coordinates(b.minY, b.maxY) :
         /\ probe' = [fn |-> "worldToCanvas",
                      in |-> [x |-> x, y |-> y, viewportBounds |-> b,
                              canvasSize |-> size],
                      out |-> worldToCanvas(x, y, b, size)]
         /\ UNCHANGED selectorVars

\* the surface point worldToCanvas returned is converted back, under the
\* bounds and the size the provider has by then
CanvasToWorld ==
  /\ probe.fn = "worldToCanvas"
  /\ \E b \in ViewportInputs, size \in SizeInputs :
       /\ probe' = [fn |-> "canvasToWorld",
                    in |-> [point |-> probe.out, viewportBounds |-> b,
                            canvasSize |-> size, world |-> probe.in],
                    out |-> canvasToWorld(probe.out, b, size)]
       /\ UNCHANGED selectorVars

CreateSelectionStrategy ==
  /\ probe.fn = "none"
  /\ \E mode \in DragModes \cup {UnknownMode} :
       /\ probe' = [fn |-> "createSelectionStrategy", in |-> mode,
                    out |-> IF StrategyThrows(mode)
                            THEN [threw |-> TRUE, strategy |-> NoStrategy]
                            ELSE [threw |-> FALSE,
                                  strategy |-> createSelectionStrategy(mode)]]
       /\ UNCHANGED selectorVars

\* zone lists of a configuration
CategoryInputs == {"h3-3", "h3-4", "h3-5"}
ZoneInputs ==
  UNION {[1..n -> [category : CategoryInputs, selected : BOOLEAN]] :
           n \in 0..MaxZones}

Construct ==
  /\ probe.fn = "none"
  /\ \E zones \in ZoneInputs, mode \in DragModes \cup {NoDragMode, UnknownMode} :
       LET config == [zones |-> zones, dragMode |-> mode]
       IN /\ probe' = [fn |-> "constructor", in |-> config,
                       out |-> ZoneSelector_constructor(config)]
          /\ UNCHANGED selectorVars

\* a provider's shape after createSelectionShape and some updates
ProviderShapeInputs ==
  {[type |-> type, points |-> pts] :
     type \in DragModes, pts \in UNION {[1..n -> Points] : n \in 1..MaxPoints}}

UpdateSelectionShape ==
  /\ probe.fn = "none"
  /\ \E provider \in Providers, shape \in ProviderShapeInputs,
        currentPoint \in Points, registered \in BOOLEAN :
       /\ probe' = [fn |-> "updateSelectionShape",
                    in |-> [provider |-> provider, shape |-> shape,
                            currentPoint |-> currentPoint,
                            startPoint |-> shape.points[1],
                            registered |-> registered],
                    out |-> updateSelectionShape(provider, shape, currentPoint,
                                                 shape.points[1], registered)]
       /\ UNCHANGED selectorVars

\* handler functions a caller registers
HandlerInputs == {"f", "g"}
RegistrationInputs ==
  UNION {[1..n -> HandlerInputs] : n \in 1..MaxRegistrations}

\* registrations regs are made for one event kind, then the handle of the
\* k-th of them is called once or twice; every other kind holds one handler
Unsubscribe ==
  /\ probe.fn = "none"
  /\ \E provider \in SubscriptionProviders, kind \in EventKinds,
        regs \in RegistrationInputs, calls2 \in BOOLEAN :
       \E k \in 1..Len(regs) :
         LET before == [e \in EventKinds |->
                          SubscribeAll(provider, <<>>,
                                       IF e = kind THEN regs ELSE <<"h">>, 1)]
             after == [before EXCEPT ![kind] =
                         CallHandle(provider, @, regs[k],
                                    IF calls2 THEN 2 ELSE 1)]
         IN /\ probe' = [fn |-> "unsubscribe",
                         in |-> [provider |-> provider, kind |-> kind,
                                 registrations |-> regs, handle |-> k,
                                 twice |-> calls2],
                         out |-> after]
            /\ UNCHANGED selectorVars

SampleOffsets ==
  /\ probe.fn = "none"
  /\ \E pathLength \in 0..MaxPathLength :
       /\ probe' = [fn |-> "sampleOffsets", in |-> pathLength,
                    out |-> sampleOffsets(pathLength)]
       /\ UNCHANGED selectorVars

CoordinateInputs == {0, 1} \X {0, 1}
GeometryInputs ==
  {[type |-> "Point", coordinates |-> <<c>>] : c \in CoordinateInputs}
    \cup {[type |-> "Polygon", coordinates |-> cs] :
            cs \in UNION {[1..n -> CoordinateInputs] : n \in 0..MaxVertices}}

\* the zones a caller can hold: a new zone, a zone whose bounds were asked
\* for, and such a zone after zone.geometry was assigned (geometry is a
\* public, writable field)
ZoneStates ==
  {newZone(g) : g \in GeometryInputs}
    \cup {[getBounds(newZone(g)).zone EXCEPT !.geometry = h] :
            g \in GeometryInputs, h \in GeometryInputs}

GetBounds ==
  /\ probe.fn = "none"
  /\ \E zone \in ZoneStates :
       /\ probe' = [fn |-> "getBounds", in |-> zone, out |-> getBounds(zone)]
       /\ UNCHANGED selectorVars

\* the selected flags a selector can hold before a call
SelectionInputs == [Zones -> BOOLEAN]

\* two consecutive toggleZoneSelection(zoneId) calls on one selector: the second
\* call runs on the flags and the rendered shapes the first call left
ToggleTwice ==
  /\ probe.fn = "none"
  /\ \E sel \in SelectionInputs, cat \in CategorySet,
        zoneId \in Zones \cup {UnknownZone} :
       LET first  == toggleZoneSelection(sel, cat, renderShapes(cat), zoneId)
           second == toggleZoneSelection(first.selected, cat,
                                         first.zoneShapes, zoneId)
       IN /\ probe' = [fn |-> "toggleZoneSelection",
                        in |-> [selected |-> sel, category |-> cat,
                                zoneId |-> zoneId],
                        out |-> [first |-> first, second |-> second]]
          /\ UNCHANGED selectorVars

GeomInit == Init /\ selected = [z \in Zones |-> FALSE]

GeomNext ==
  \/ LassoContainsShape
  \/ PathIntersectsShape
  \/ CompleteSelection
  \/ WorldToCanvas
  \/ CanvasToWorld
  \/ CreateSelectionStrategy
  \/ Construct
  \/ UpdateSelectionShape
  \/ Unsubscribe
  \/ SampleOffsets
  \/ GetBounds
  \/ ToggleTwice

GeomSpec == GeomInit /\ [][GeomNext]_vars

(***************************************************************************)
(* Properties                                                              *)
(***************************************************************************)

\* a step in which the pointer-up handler runs
PointerUp == subscribed /\ lastOp'.op = "mouseUp"
\* a step in which the pointer-up handler completes a drag
DragCompletion == PointerUp /\ isDragging

\* C1: a pointer-down immediately followed by a pointer-up, where the hit test
\* at pointer-down found a zone z of the current category, flips z.selected,
\* leaves every other flag, and onSelectionChange is invoked exactly once in
\* the gesture, with exactly the zones then selected.
C1_ClickTogglesHitZone ==
  [][(PointerUp /\ lastOp.op = "mouseDown" /\ lastOp.arg \in Zones
        /\ CategoryOf(lastOp.arg) = currentCategory)
       => /\ selected' = [selected EXCEPT ![lastOp.arg] = ~@]
          /\ Len(calls) + Len(calls') = 1
          /\ calls' = <<SelectedZones(selected')>>]_vars

C1_Witness ==
  /\ lastOp.op = "mouseUp" /\ lastOp.after = "mouseDown"
  /\ lastOp.arg \in Zones /\ CategoryOf(lastOp.arg) = currentCategory
  /\ branch = "click"
  /\ selected[lastOp.arg]
  /\ calls = <<getSelectedZones>>

\* C2: when a pointer-move came between pointer-down and pointer-up, the
\* pointer-up does not click-toggle the zone staged at pointer-down: that
\* zone's flag changes only if its shape passed testIntersection, and then
\* only to selected without Shift and to unselected with Shift.
C2_NoClickToggleAfterMove ==
  [][(PointerUp /\ moved)
       => /\ branch' # "click"
          /\ (clickedZoneId \in Zones /\ selected'[clickedZoneId] # selected[clickedZoneId])
               => /\ clickedZoneId \in hits'
                  /\ selected'[clickedZoneId] = ~isShiftPressed]_vars

C2_Witness ==
  /\ lastOp.op = "mouseUp" /\ branch = "drag"
  /\ lastOp.arg \in Zones /\ CategoryOf(lastOp.arg) = currentCategory
  /\ lastOp.arg \notin hits /\ hits # {}
  /\ calls # <<>>
  /\ ~selected[lastOp.arg]

\* C3: at a pointer-up that completes a drag, every zone of the current
\* category whose rendered shape passes testIntersection is selected
\* afterwards when Shift is not held, and unselected afterwards when it is.
C3_DragSetsPassingZones ==
  [][DragCompletion
       => \A z \in CurrentZones(currentCategory) :
            z \in hits' => selected'[z] = ~isShiftPressed]_vars

C3_Witness ==
  /\ lastOp.op = "mouseUp" /\ branch = "drag"
  /\ hits = CurrentZones(currentCategory) /\ Cardinality(hits) = 2
  /\ ~isShiftPressed
  /\ calls = <<getSelectedZones>>

\* C4: a drag completion leaves the flag of every zone outside the current
\* category and of every zone that fails testIntersection; without Shift it
\* turns no selected zone unselected, with Shift it turns no unselected zone
\* selected.
C4_DragFrame ==
  [][DragCompletion
       => \A z \in Zones :
            /\ (CategoryOf(z) # currentCategory \/ z \notin hits')
                 => selected'[z] = selected[z]
            /\ (~isShiftPressed /\ selected[z]) => selected'[z]
            /\ (isShiftPressed /\ ~selected[z]) => ~selected'[z]]_vars

C4_Witness ==
  /\ lastOp.op = "mouseUp" /\ branch = "drag"
  /\ isShiftPressed
  /\ calls # <<>>
  /\ \E z \in CurrentZones(currentCategory) : z \notin hits /\ selected[z]
  /\ \E z \in Zones : CategoryOf(z) # currentCategory /\ selected[z]

\* C5: in a drag gesture onSelectionChange is invoked at most once, by the
\* completing pointer-up and with the flags as they are after every zone was
\* processed, and it is invoked if and only if some flag changed.
C5_OneCallbackPerDrag ==
  [][/\ (subscribed /\ lastOp'.op \in {"mouseDown", "mouseMove"}) => calls' = <<>>
     /\ DragCompletion
          => /\ Len(calls') <= 1
             /\ (calls' # <<>>) <=> (selected' # selected)
             /\ (calls' # <<>>) => calls'[1] = SelectedZones(selected')]_vars

C5_Witness ==
  /\ lastOp.op = "mouseUp" /\ branch = "drag"
  /\ hits # {}
  /\ calls = <<>>

\* C6: whether a drag selects or deselects follows Shift at pointer-up, not
\* Shift at drag start: a drag begun with Shift held and completed with Shift
\* released selects, a drag begun without Shift and completed with Shift held
\* deselects.
C6_ShiftReadAtPointerUp ==
  [][DragCompletion
       => /\ (shiftAtStart /\ ~isShiftPressed)
               => /\ \A z \in hits' : selected'[z]
                  /\ \A z \in Zones : selected[z] => selected'[z]
          /\ (~shiftAtStart /\ isShiftPressed)
               => /\ \A z \in hits' : ~selected'[z]
                  /\ \A z \in Zones : selected'[z] => selected[z]]_vars

C6_Witness ==
  /\ lastOp.op = "mouseUp" /\ branch = "drag"
  /\ shiftAtStart /\ ~isShiftPressed
  /\ hits # {}
  /\ calls # <<>>
  /\ \A z \in hits : selected[z]

\* C7: a pointer-down sets dragStart and clickedZoneId and nothing else: no
\* flag changes and no callback is invoked, whether or not the hit test finds
\* a zone.
C7_PointerDownOnlyStages ==
  [][(subscribed /\ lastOp'.op = "mouseDown")
       => /\ dragStart' \in Points
          /\ clickedZoneId' = lastOp'.arg
          /\ selected' = selected
          /\ calls' = <<>> /\ catCalls' = <<>>
          /\ UNCHANGED <<currentCategory, zoneShapes, dragMode, selectionStrategy,
                         isDragging, selectionShape, isShiftPressed,
                         subscribed, listening>>]_vars

C7_Witness ==
  /\ lastOp.op = "mouseDown" /\ lastOp.arg \in Zones
  /\ clickedZoneId = lastOp.arg
  /\ dragStart \in Points
  /\ ~selected[clickedZoneId]

\* C8: toggleZoneSelection(id) with an id that names no zone, or a zone of
\* another category than the current one, changes no flag, leaves
\* getSelectedZones() as it was and does not invoke onSelectionChange.
C8_ToggleIgnoresForeignZone ==
  [][(lastOp'.op = "toggleZoneSelection"
        /\ (lastOp'.arg \notin Zones \/ CategoryOf(lastOp'.arg) # currentCategory))
       => /\ selected' = selected
          /\ SelectedZones(selected') = SelectedZones(selected)
          /\ calls' = <<>>
          /\ zoneShapes' = zoneShapes]_vars

C8_Witness ==
  /\ lastOp.op = "toggleZoneSelection"
  /\ lastOp.arg \in Zones /\ CategoryOf(lastOp.arg) # currentCategory
  /\ ~selected[lastOp.arg]
  /\ calls = <<>>

\* C9: setCategory changes no zone's selected flag, so getSelectedZones()
\* is the same after any number of setCategory calls, zones outside the
\* current category included.
C9_SetCategoryKeepsSelection ==
  [][lastOp'.op = "setCategory"
       => /\ selected' = selected
          /\ SelectedZones(selected') = SelectedZones(selected)]_vars

C9_Witness ==
  /\ lastOp.op = "setCategory" /\ lastOp.arg = currentCategory
  /\ catCalls = <<currentCategory>>
  /\ \E z \in Zones : selected[z] /\ CategoryOf(z) # currentCategory

\* C10: setCategory(c) with c not among the known categories leaves the
\* current category, invokes no onCategoryChange, re-renders nothing and
\* changes no flag.
C10_UnknownCategoryIgnored ==
  [][(lastOp'.op = "setCategory" /\ lastOp'.arg \notin CategorySet)
       => /\ currentCategory' = currentCategory
          /\ catCalls' = <<>> /\ calls' = <<>>
          /\ zoneShapes' = zoneShapes
          /\ selectionShape' = selectionShape
          /\ selected' = selected]_vars

C10_Witness ==
  /\ lastOp.op = "setCategory" /\ lastOp.arg = UnknownCategory
  /\ currentCategory \in CategorySet
  /\ isDragging /\ selectionShape.inProject
  /\ getSelectedZones # {}


\* C11: clearSelection() leaves every zone of every category unselected and
\* invokes onSelectionChange exactly once with the empty list, also when no
\* zone was selected before.
C11_ClearSelectionClearsAll ==
  [][lastOp'.op = "clearSelection"
       => /\ \A z \in Zones : ~selected'[z]
          /\ calls' = << {} >>]_vars

C11_Witness ==
  /\ lastOp = [op |-> "clearSelection", arg |-> "none selected", after |-> ""]
  /\ getSelectedZones = {}
  /\ calls = << {} >>

\* C12: every invocation of onSelectionChange passes exactly the zones whose
\* selected flag is true at the call, of all categories: the payload equals
\* getSelectedZones().
C12_PayloadIsAllSelected ==
  \A i \in 1..Len(calls) : calls[i] = getSelectedZones

C12_Witness ==
  /\ lastOp.op = "toggleZoneSelection"
  /\ calls = <<getSelectedZones>>
  /\ \E z \in getSelectedZones : CategoryOf(z) # currentCategory
  /\ \E z \in getSelectedZones : CategoryOf(z) = currentCategory

\* C13: every pointer-up leaves the selector without a selection shape and
\* the drawing surface without a selection path; whenever the selector is not
\* dragging, no selection shape exists.
C13_ShapeReleased ==
  [][/\ PointerUp => (selectionShape' = NoShape /\ surfacePaths' = 0)
     /\ ~isDragging' => (selectionShape' = NoShape /\ surfacePaths' = 0)]_vars

C13_Witness ==
  /\ lastOp.op = "mouseUp" /\ branch = "drag"
  /\ lastOp.after = "mouseMove"
  /\ selectionShape = NoShape /\ surfacePaths = 0

\* C14: after every pointer-up, whichever branch it takes, isDragging is
\* false, dragStart is null and clickedZoneId is null.
C14_PointerUpResets ==
  [][PointerUp
       => (~isDragging' /\ dragStart' = NoPoint /\ clickedZoneId' = NoZone)]_vars

C14_Witness ==
  /\ lastOp.op = "mouseUp" /\ lastOp.arg \in Zones /\ branch = "drag"
  /\ ~isDragging /\ dragStart = NoPoint /\ clickedZoneId = NoZone

\* C15: once dragging, the selector stays dragging until a pointer-up is
\* delivered: no other event or operation ends the drag.
C15_DragEndsOnlyAtPointerUp ==
  [][(isDragging /\ ~PointerUp)
       => (isDragging' /\ selectionShape' # NoShape /\ dragStart' = dragStart)]_vars

C15_Witness ==
  /\ isDragging /\ subscribed
  /\ lastOp.op = "setCategory" /\ lastOp.arg = currentCategory
  /\ catCalls # <<>>
  /\ Len(selectionShape.points) >= 2

\* C16: setDragMode during a drag does not affect the drag: the strategy that
\* grows, styles, completes and tests the shape in progress stays the one
\* that was active when the drag started.
C16_DragKeepsItsStrategy ==
  [][(isDragging /\ isDragging') => selectionStrategy' = selectionStrategy]_vars

\* the containment tests of a zone shape against a lasso, in the order of
\* the algorithm: position, vertices, bounds corners and center, boundaries
AllTests(g) ==
  <<g.position>>
    \o (IF g.segments = NoSegments THEN <<>> ELSE [i \in 1..Len(g.segments) |-> g.segments[i]])
    \o [i \in 1..5 |-> g.corners[i]]
    \o <<IF g.crossings = Crossing THEN Inside
         ELSE IF g.crossings = Apart THEN Outside ELSE Fault>>

\* the first test that holds is preceded by a test that raises, or no test
\* holds and one raises
FaultMet(g) ==
  \E i \in 1..Len(AllTests(g)) :
    /\ AllTests(g)[i] = Fault
    /\ \A j \in 1..(i - 1) : AllTests(g)[j] = Outside

NoFaults(g) == \A i \in 1..Len(AllTests(g)) : AllTests(g)[i] # Fault

C18_LassoFallbackAbsorbsFaults ==
  probe.fn = "lassoContainsShape"
    => /\ ~probe.out.threw
       /\ FaultMet(probe.in)
            => probe.out.result = (probe.in.positionAgain = Inside)

C18_Witness ==
  /\ probe.fn = "lassoContainsShape"
  /\ probe.in.position = Outside
  /\ probe.in.crossings = Fault
  /\ FaultMet(probe.in)
  /\ probe.in.positionAgain = Fault
  /\ probe.out.fellBack /\ ~probe.out.result /\ ~probe.out.threw

\* C19: pathIntersectsShape returns a boolean and raises nothing for any
\* input, also when the crossing or sampling tests raise and the bounds
\* overlap fallback is evaluated.
C19_PathNeverThrows ==
  probe.fn = "pathIntersectsShape" => ~probe.out.threw

\* C20: when no test raises, lassoContainsShape is true exactly when the
\* position, a vertex, a bounds corner or the bounds center is inside the
\* lasso or the boundaries intersect; the tests run in that order and stop
\* at the first that holds.
C20_LassoContainment ==
  (probe.fn = "lassoContainsShape" /\ NoFaults(probe.in))
    => LET tests == AllTests(probe.in)
           holds == {i \in 1..Len(tests) : tests[i] = Inside}
       IN /\ probe.out.result = (holds # {})
          /\ probe.out.seen = (IF holds = {} THEN Len(tests)
                               ELSE CHOOSE i \in holds : \A j \in holds : i <= j)

C20_Witness ==
  /\ probe.fn = "lassoContainsShape"
  /\ NoFaults(probe.in)
  /\ probe.in.position = Outside
  /\ probe.in.segments = <<Outside, Outside>>
  /\ probe.in.corners = <<Outside, Outside, Outside, Outside, Inside>>
  /\ probe.out.result /\ probe.out.seen = 8

\* x lies in [lo, hi]
Between(x, lo, hi) == AtMost(lo, x) /\ AtMost(x, hi)
InBounds(w) ==
  /\ Between(w.x, w.viewportBounds.minX, w.viewportBounds.maxX)
  /\ Between(w.y, w.viewportBounds.minY, w.viewportBounds.maxY)

\* a and b differ by at most two units in the last place of a number of the
\* magnitude of scale
Near(a, b, scale) ==
  LET d == ExactSum(a, Neg(b))
      T == scale.e + BitLen(Abs(scale.m)) - MantissaBits + 1
  IN IF d.e >= T THEN Abs(d.m) * Pow2(d.e - T) <= 1
     ELSE Abs(d.m) <= Pow2(T - d.e)

\* the magnitude of the coordinates of a range: |lo| + (hi - lo)
Magnitude(lo, hi) == Plus([m |-> Abs(lo.m), e |-> lo.e], Minus(hi, lo))

\* a world point inside the bounds was converted to the surface and back
\* under one snapshot of bounds and size
RoundTrip ==
  /\ probe.fn = "canvasToWorld"
  /\ probe.in.viewportBounds = probe.in.world.viewportBounds
  /\ probe.in.canvasSize = probe.in.world.canvasSize
  /\ InBounds(probe.in.world)

C22_CornersAndCentre ==
  probe.fn = "worldToCanvas" =>
    LET b == probe.in.viewportBounds
        size == probe.in.canvasSize
        x == probe.in.x
        y == probe.in.y
        tested == b = TestViewport /\ size = TestCanvasSize
    IN /\ (x = b.minX /\ y = b.minY) =>
            probe.out = [x |-> Num(0), y |-> size.height]
       /\ (x = b.maxX /\ y = b.maxY) =>
            probe.out = [x |-> size.width, y |-> Num(0)]
       /\ (x = Centre(b.minX, b.maxX) /\ y = Centre(b.minY, b.maxY)) =>
            probe.out = [x |-> Over(size.width, Num(2)),
                         y |-> Over(size.height, Num(2))]
       /\ (tested /\ x = Num(0) /\ y = Num(0)) =>
            probe.out = [x |-> Num(400), y |-> Num(300)]
       /\ (tested /\ x = Num(-10) /\ y = Num(-10)) =>
            probe.out = [x |-> Num(0), y |-> Num(600)]
       /\ (tested /\ x = Num(10) /\ y = Num(10)) =>
            probe.out = [x |-> Num(800), y |-> Num(0)]

C22_Witness ==
  /\ probe.fn = "worldToCanvas"
  /\ probe.in.viewportBounds = TestViewport
  /\ probe.in.canvasSize = TestCanvasSize
  /\ probe.in.x = Num(10)
  /\ probe.in.y = Num(10)
  /\ probe.out = [x |-> Num(800), y |-> Num(0)]

\* C23: createSelectionStrategy returns a lasso strategy for mode 'lasso' and a
\* path strategy for mode 'path' (the lasso strategy closes the shape at
\* completion, the path strategy leaves it open), and for every other mode
\* value it fails with an error and returns no strategy.
C23_StrategyByMode ==
  probe.fn = "createSelectionStrategy" =>
    LET traced == createShape("p")
        Completed(strategy) == completeSelection(strategy, traced, "p")
    IN /\ probe.in = "lasso" =>
            /\ ~probe.out.threw
            /\ probe.out.strategy = "lasso"
            /\ Completed(probe.out.strategy).closed
       /\ probe.in = "path" =>
            /\ ~probe.out.threw
            /\ probe.out.strategy = "path"
            /\ ~Completed(probe.out.strategy).closed
       /\ probe.in \notin {"lasso", "path"} =>
            /\ probe.out.threw
            /\ probe.out.strategy = NoStrategy

C23_Witness ==
  /\ probe.fn = "createSelectionStrategy"
  /\ probe.in = UnknownMode
  /\ probe.out.threw

\* the index of the first zone of a category
FirstOf(zones, c) ==
  CHOOSE i \in 1..Len(zones) :
    /\ zones[i].category = c
    /\ \A j \in 1..(i - 1) : zones[j].category # c

\* C24: after construction getCategories() returns the distinct categories of
\* the supplied zones, without duplicates and in order of first appearance,
\* and getCurrentCategory() is the first of them; with an empty zone list
\* getCategories() is empty, getSelectedZones() is empty and construction does
\* not fail.
C24_CategoriesAtConstruction ==
  (probe.fn = "constructor" /\ probe.in.dragMode # UnknownMode) =>
    LET zones == probe.in.zones
        cats == probe.out.categories
    IN /\ ~probe.out.threw
       /\ {cats[i] : i \in 1..Len(cats)}
            = {zones[i].category : i \in 1..Len(zones)}
       /\ \A i, j \in 1..Len(cats) :
            i < j => /\ cats[i] # cats[j]
                     /\ FirstOf(zones, cats[i]) < FirstOf(zones, cats[j])
       /\ zones # <<>> => probe.out.currentCategory = cats[1]
       /\ zones = <<>> => /\ cats = <<>>
                          /\ probe.out.selectedZones = <<>>

C24_Witness ==
  /\ probe.fn = "constructor"
  /\ Len(probe.in.zones) = 3
  /\ probe.in.zones[1].category = "h3-4"
  /\ probe.in.zones[2].category = "h3-3"
  /\ probe.in.zones[3].category = "h3-4"
  /\ probe.out.categories = <<"h3-4", "h3-3">>
  /\ probe.out.currentCategory = "h3-4"

\* a step in which a Shift key event reaches the selector's listener
ShiftEvent(op) ==
  listening /\ lastOp'.op = op /\ lastOp'.arg = "Shift"

\* C25: isShiftKeyPressed() is false after construction and afterwards is true
\* exactly when the most recent Shift key event was a keydown: a Shift keydown
\* sets it, a Shift keyup clears it, and key events for any other key and all
\* pointer events (every other step) leave it unchanged.
C25_ShiftFollowsShiftKeys ==
  /\ (lastOp.op = "constructor" => ~isShiftPressed)
  /\ [][/\ ShiftEvent("keyDown") => isShiftPressed'
        /\ ShiftEvent("keyUp") => ~isShiftPressed'
        /\ ~(ShiftEvent("keyDown") \/ ShiftEvent("keyUp")) =>
             isShiftPressed' = isShiftPressed]_vars

\* another key is released while Shift is held
C25_Witness ==
  /\ listening
  /\ lastOp.op = "keyUp"
  /\ lastOp.arg = "a"
  /\ isShiftPressed

InputEvents ==
  {"keyDown", "keyUp", "mouseDown", "mouseMove", "mouseUp", "viewportChange"}

\* C26: after destroy() the instance no longer reacts to input: Shift
\* keydown/keyup events do not change its modifier state, and pointer or
\* viewport events change no zone's selected flag and invoke no callback.
C26_DestroyedIgnoresInput ==
  [][(~subscribed /\ lastOp'.op \in InputEvents) =>
       /\ isShiftPressed' = isShiftPressed
       /\ selected' = selected
       /\ calls' = <<>>
       /\ catCalls' = <<>>]_vars

\* destroyed between the pointer-down on a zone and the pointer-up
C26_Witness ==
  /\ ~subscribed
  /\ lastOp.op = "mouseUp"
  /\ lastOp.after = "destroy"
  /\ lastOp.arg \in CurrentZones(currentCategory)
  /\ ~isDragging
  /\ calls = <<>>

\* C27: the first pointer-move delivered after a pointer-down always promotes
\* ArmedClick to Dragging and creates the selection shape rooted at dragStart,
\* whatever the distance between the move point and dragStart, including a
\* move to the very same point.
C27_FirstMoveStartsDrag ==
  [][(subscribed /\ lastOp'.op = "mouseMove" /\ ~isDragging /\ dragStart # NoPoint) =>
       /\ isDragging'
       /\ selectionShape' # NoShape
       /\ selectionShape'.points[1] = dragStart
       /\ selectionShape'.inProject
       /\ dragStart' = dragStart]_vars

\* a drag started by a move to the start point itself
C27_Witness ==
  /\ subscribed
  /\ lastOp.op = "mouseMove"
  /\ isDragging
  /\ selectionShape.points = <<dragStart, dragStart>>

\* C28: at the pointer-up of a click gesture the zone staged at pointer-down is
\* toggled only if it belongs to the category that is current at pointer-up;
\* if its category is no longer current, the pointer-up changes no selected
\* flag and fires no callback.
C28_ClickUsesCategoryAtPointerUp ==
  [][(PointerUp /\ ~isDragging /\ clickedZoneId # NoZone) =>
       IF CategoryOf(clickedZoneId) = currentCategory
       THEN /\ selected' = [selected EXCEPT ![clickedZoneId] = ~@]
            /\ Len(calls') = 1
       ELSE /\ selected' = selected
            /\ calls' = <<>>]_vars

\* setCategory switched away between the pointer-down on a zone and the
\* pointer-up
C28_Witness ==
  /\ subscribed
  /\ lastOp.op = "mouseUp"
  /\ lastOp.after = "setCategory"
  /\ lastOp.arg \in Zones
  /\ CategoryOf(lastOp.arg) # currentCategory
  /\ branch = "click"
  /\ calls = <<>>

\* C29: in both lasso and path mode every pointer-move during Dragging appends
\* the move point to the selection shape's point sequence and keeps all
\* earlier points in their order.
C29_MoveAppendsPoint ==
  (probe.fn = "updateSelectionShape" /\ probe.in.registered) =>
    probe.out.points = Append(probe.in.shape.points, probe.in.currentPoint)

\* the distinct vertices of a shape
Vertices(shape) == {shape.points[i] : i \in 1..Len(shape.points)}

\* C30: completeSelection on a lasso shape that holds only its start point
\* replaces it by a small closed area around the start point: the completed
\* shape is closed and has non-zero area (at least three distinct vertices).
C30_SinglePointLassoGetsArea ==
  (/\ probe.fn = "completeSelection"
   /\ probe.in.strategy = "lasso"
   /\ Len(probe.in.shape.points) = 1) =>
    /\ probe.out.closed
    /\ Cardinality(Vertices(probe.out)) >= 3

\* how often an event of the kind invokes the function
Invocations(handlers, handler) ==
  Cardinality({i \in 1..Len(handlers) : handlers[i] = handler})

\* C31: the unsubscribe handle removes exactly the registration that produced
\* it: afterwards that registration's handler is not invoked by later events,
\* calling the handle again changes nothing, and every other registration,
\* including another registration of the same function, still receives
\* events.
C31_HandleRemovesItsRegistration ==
  probe.fn = "unsubscribe" =>
    LET regs == probe.in.registrations
        removed == regs[probe.in.handle]
    IN /\ \A h \in HandlerInputs :
            Invocations(probe.out[probe.in.kind], h)
              = Invocations(regs, h) - (IF h = removed THEN 1 ELSE 0)
       /\ \A e \in EventKinds \ {probe.in.kind} : probe.out[e] = <<"h">>

\* max(10, floor(length / 5))
ExpectedSampleCount(length) ==
  CHOOSE n \in {MinSamples, length \div SampleSpacing} :
    n >= MinSamples /\ n >= length \div SampleSpacing

\* C32: when the path does not cross the zone's boundary (and no library call
\* raises), pathIntersectsShape tests the sampleCount + 1 points at the evenly
\* spaced offsets i * length / sampleCount for i = 0..sampleCount, where
\* sampleCount = max(10, floor(length / 5)), and returns true if and only if
\* one of those points lies inside the zone shape; both end points of the
\* path are among the samples and sampleCount is never below 10.
C32_SamplesAlongThePath ==
  /\ probe.fn = "sampleOffsets" =>
       LET length == probe.in
           n == ExpectedSampleCount(length)
       IN /\ n >= 10
          /\ DOMAIN probe.out = 0..n
          /\ probe.out[0] = Num(0)
          /\ probe.out[n] = Num(length)
          /\ \A i \in 0..n :
               Near(probe.out[i], Over(Times(Num(i), Num(length)), Num(n)),
                    Num(length))
  /\ (probe.fn = "pathIntersectsShape" /\ probe.in.crossings = Apart
        /\ ~probe.out.fellBack) =>
       LET n == ExpectedSampleCount(probe.in.length)
       IN /\ probe.out.result <=> \E i \in 0..n : sampleAt(probe.in, i) = Inside
          /\ ~probe.out.result => probe.out.seen = n + 1

\* only the end point of a path of length 60 lies inside the zone
C32_Witness ==
  /\ probe.fn = "pathIntersectsShape"
  /\ probe.in.crossings = Apart
  /\ probe.in.length = 60
  /\ probe.in.insideAt = 12
  /\ probe.in.nullAt = -1
  /\ probe.in.faultAt = -1
  /\ probe.out.result
  /\ probe.out.seen = 13

\* C33: Zone.getBounds() always equals the axis-aligned bounding box of the
\* zone's current geometry coordinates, with minX <= maxX and minY <= maxY
\* (the cached bounds never lag behind the coordinates).
C33_BoundsOfCurrentGeometry ==
  probe.fn = "getBounds" =>
    LET coords == probe.in.geometry.coordinates
        xs == {coords[i][1] : i \in 1..Len(coords)}
        ys == {coords[i][2] : i \in 1..Len(coords)}
        b == probe.out.bounds
    IN /\ b.minX <= b.maxX
       /\ b.minY <= b.maxY
       /\ \A x \in xs : b.minX <= x /\ x <= b.maxX
       /\ \A y \in ys : b.minY <= y /\ y <= b.maxY
       /\ coords # <<>> => /\ b.minX \in xs /\ b.maxX \in xs
                           /\ b.minY \in ys /\ b.maxY \in ys

\* C34: calling toggleZoneSelection twice in a row on the same zone of the
\* current category restores the selected set to what it was before the first
\* call, and onSelectionChange is invoked exactly twice, once per call, each
\* time with the selected set of that moment
C34_ToggleTwiceRestores ==
  (/\ probe.fn = "toggleZoneSelection"
   /\ probe.in.zoneId \in Zones
   /\ CategoryOf(probe.in.zoneId) = probe.in.category)
  => LET first  == probe.out.first
         second == probe.out.second
     IN /\ second.selected = probe.in.selected
        /\ first.selected # probe.in.selected
        /\ first.calls = <<SelectedZones(first.selected)>>
        /\ second.calls = <<SelectedZones(probe.in.selected)>>

\* two toggles of a zone of the current category, starting with another zone
\* selected: the first call reports both zones, the second only the other one
C34_Witness ==
  /\ probe.fn = "toggleZoneSelection"
  /\ probe.in.zoneId \in Zones
  /\ CategoryOf(probe.in.zoneId) = probe.in.category
  /\ SelectedZones(probe.in.selected) # {}
  /\ ~probe.in.selected[probe.in.zoneId]
  /\ Len(probe.out.first.calls) = 1
  /\ Cardinality(probe.out.first.calls[1]) = 2
  /\ probe.out.second.calls = <<SelectedZones(probe.in.selected)>>

\* C35: in every reachable state of the selector, under any order of pointer,
\* key and API events, isDragging is true if and only if the selector holds a
\* selection shape, and isDragging true implies dragStart is not null
C35_DraggingIffShape ==
  /\ isDragging <=> selectionShape # NoShape
  /\ isDragging => dragStart # NoPoint

\* a drag that has grown by a second move after an API call arrived in the
\* middle of it
C35_Witness ==
  /\ isDragging /\ subscribed
  /\ selectionShape # NoShape /\ dragStart # NoPoint
  /\ lastOp.op = "mouseMove" /\ moved
  /\ ~selectionShape.inProject

\* the selector is Idle: no pointer-down is pending and no drag is under way
Idle == ~isDragging /\ dragStart = NoPoint /\ clickedZoneId = NoZone

\* C36: a pointer-move or pointer-up delivered while the selector is Idle is a
\* no-op: no selection shape is created, no zone's selected flag changes, no
\* callback fires and the selector stays Idle
C36_IdleMoveAndUpAreNoOps ==
  [][(subscribed /\ Idle /\ lastOp'.op \in {"mouseMove", "mouseUp"})
       => /\ selectionShape' = NoShape /\ surfacePaths' = surfacePaths
          /\ selected' = selected
          /\ zoneShapes' = zoneShapes
          /\ calls' = <<>> /\ catCalls' = <<>>
          /\ Idle']_vars

\* a hover move on a selector holding a selection: no pointer-down came before
\* it, and it left the selector Idle
C36_Witness ==
  /\ subscribed /\ Idle
  /\ lastOp.op = "mouseMove" /\ downs = 0 /\ ~moved
  /\ selectionShape = NoShape /\ surfacePaths = 0
  /\ SelectedZones(selected) # {}
  /\ calls = <<>>

\* C37: whenever a drag is completed at pointer-up, the selection shape holds
\* at least two points, because the first pointer-move both creates the shape
\* at dragStart and grows it to the move point in the same event; the
\* single-point branch of shape completion is never reached through pointer
\* events
C37_CompletedShapeHasTwoPoints ==
  [][/\ DragCompletion => Len(selectionShape.points) >= 2
     /\ (subscribed /\ lastOp'.op = "mouseMove" /\ ~isDragging /\ isDragging')
          => /\ Len(selectionShape'.points) = 2
             /\ selectionShape'.points[1] = dragStart
    ]_vars

\* a drag completed by the pointer-up that directly follows a pointer-move
C37_Witness ==
  /\ subscribed
  /\ lastOp.op = "mouseUp" /\ branch = "drag"
  /\ lastOp.after = "mouseMove"
  /\ selectionShape = NoShape /\ ~isDragging /\ dragStart = NoPoint
  /\ hits # {}

\* a step in which render() runs: a viewport-change event, clearSelection(), or
\* setCategory() with one of the selector's categories
Rerender ==
  /\ subscribed
  /\ \/ lastOp'.op \in {"viewportChange", "clearSelection"}
     \/ lastOp'.op = "setCategory" /\ lastOp'.arg \in CategorySet

\* C38: a re-render that happens during Dragging, caused by setCategory,
\* clearSelection or a viewport-change event, does not remove the in-progress
\* selection shape from the drawing surface: the shape stays drawn
C38_RerenderKeepsSelectionShape ==
  [][(Rerender /\ isDragging /\ selectionShape.inProject)
       => (selectionShape'.inProject /\ surfacePaths' = surfacePaths)]_vars

\* C39: in every reachable state after construction, the zones that have a
\* rendered shape (the keys of zoneShapes) are exactly the zones of the current
\* category, after any sequence of toggleZoneSelection, clicks, drags,
\* setCategory and clearSelection
C39_ShapesAreCurrentZones ==
  subscribed => zoneShapes = CurrentZones(currentCategory)

\* a toggle after a switch to the second category: a zone of that category is
\* selected and the rendered shapes are the zones of that category
C39_Witness ==
  /\ subscribed
  /\ lastOp.op = "toggleZoneSelection"
  /\ currentCategory = categories[2]
  /\ lastOp.arg \in CurrentZones(currentCategory)
  /\ selected[lastOp.arg]
  /\ zoneShapes = CurrentZones(currentCategory)
  /\ \E z \in Zones : z \notin zoneShapes /\ selected[z]

\* getDragMode(): the stored drag mode
getDragMode == dragMode

\* the mode whose strategy class the active strategy is an instance of
ModeOf(strategy) == CHOOSE mode \in DragModes : createSelectionStrategy(mode) = strategy

\* C40: getDragMode() always names the mode of the strategy that is currently
\* active; a setDragMode call that fails on an unrecognized mode leaves both the
\* reported drag mode and the active strategy as they were before the call
C40_DragModeNamesActiveStrategy ==
  getDragMode = ModeOf(selectionStrategy)

=============================================================================
